---- MODULE Spec2Model ----
(***************************************************************************)
(* The streaming datasheet parser of scripts/parseNGSDatasheets.js: the    *)
(* three variants of NGSDatasheetParser.parseDatasheetFile (limited, full  *)
(* processing, line-by-line test) and the batch runner around them.        *)
(*                                                                         *)
(* Lines are strings.  The regular expressions of the source are modelled  *)
(* as left-to-right scanners over the characters of the line, parseInt and *)
(* parseFloat as digit-by-digit conversions.  Numbers are fixed point:     *)
(* parseFloat yields hundredths, and decimal degrees are held as integer   *)
(* multiples of 1/360000 degree (so 45.5 degrees is 16380000).  Digits     *)
(* past the second decimal are dropped; the input lines used stay within   *)
(* that precision.                                                         *)
(***************************************************************************)
EXTENDS Integers, Sequences, FiniteSets, TLC

(***************************************************************************)
(* Bounds of the model.                                                    *)
(***************************************************************************)
\* Lines that can be read in one run: by one call of parseDatasheetFile, or
\* by all the calls of one batch together.
MaxLines == 5
\* const maxBenchmarks, the per-file ceiling: 5000 in the full variant and 1000
\* in the limited one, scaled down so that a file of MaxLines lines reaches it.
maxBenchmarks == 2
\* The test variant's `if (lineCount > 10000) break`, scaled down likewise.
testLineLimit == 3
\* maxStates of the limited processAllDatasheets, 10 in the source, scaled down
maxStates == 2

(***************************************************************************)
(* JavaScript values held in record fields.                                *)
(***************************************************************************)
Null == [kind |-> "null"]
NaN == [kind |-> "nan"]
Num(n) == [kind |-> "num", n |-> n]
Str(s) == [kind |-> "str", s |-> s]

\* ToBoolean, as applied by `a && b` and `!a`.
Truthy(v) ==
    CASE v.kind = "null" -> FALSE
      [] v.kind = "nan" -> FALSE
      [] v.kind = "num" -> v.n # 0
      [] v.kind = "str" -> v.s # ""
      [] OTHER -> TRUE

\* a + b, a / k and -a on numbers, NaN absorbing.
Plus(a, b) == IF a.kind = "num" /\ b.kind = "num" THEN Num(a.n + b.n) ELSE NaN
Times(a, k) == IF a.kind = "num" THEN Num(a.n * k) ELSE NaN
Negate(a) == IF a.kind = "num" THEN Num(0 - a.n) ELSE NaN

(***************************************************************************)
(* Strings.                                                                *)
(***************************************************************************)
Digit == {"0", "1", "2", "3", "4", "5", "6", "7", "8", "9"}
Upper == {"A", "B", "C", "D", "E", "F", "G", "H", "I", "J", "K", "L", "M",
          "N", "O", "P", "Q", "R", "S", "T", "U", "V", "W", "X", "Y", "Z"}
\* \s
Space == {" ", "\t"}

Ch(s, i) == IF 1 <= i /\ i <= Len(s) THEN SubSeq(s, i, i) ELSE ""

\* s.substring starting at i equals p
StartsAt(s, i, p) == i >= 1 /\ i + Len(p) - 1 <= Len(s) /\ SubSeq(s, i, i + Len(p) - 1) = p

\* String.prototype.includes
includes(s, p) == \E i \in 1..(Len(s) + 1) : StartsAt(s, i, p)

\* The index just past the longest run of characters of class C that starts
\* at i (i itself when there is none): a greedy C*.
RECURSIVE RunEnd(_, _, _)
RunEnd(s, i, C) == IF Ch(s, i) \in C THEN RunEnd(s, i + 1, C) ELSE i

\* String.prototype.trim
RECURSIVE TrimEnd(_)
TrimEnd(s) == IF Len(s) > 0 /\ Ch(s, Len(s)) \in Space THEN TrimEnd(SubSeq(s, 1, Len(s) - 1)) ELSE s
trim(s) == LET b == RunEnd(s, 1, Space) IN TrimEnd(SubSeq(s, b, Len(s)))

DigitVal(c) ==
    CASE c = "0" -> 0 [] c = "1" -> 1 [] c = "2" -> 2 [] c = "3" -> 3 [] c = "4" -> 4
      [] c = "5" -> 5 [] c = "6" -> 6 [] c = "7" -> 7 [] c = "8" -> 8 [] c = "9" -> 9

\* The value of the digit string s[i..j-1], 0 for the empty string.
RECURSIVE Decimal(_, _, _)
Decimal(s, i, j) == IF j <= i THEN 0 ELSE 10 * Decimal(s, i, j - 1) + DigitVal(Ch(s, j - 1))

\* parseInt of a capture of \d+.
parseInt(s) ==
    LET e == RunEnd(s, 1, Digit)
    IN  IF e = 1 THEN NaN ELSE Num(Decimal(s, 1, e))

\* parseFloat: an optional sign, digits, an optional point and digits; the
\* longest such prefix is converted and the rest ignored; NaN when the prefix
\* holds no digit.  The result is in hundredths.
parseFloat(s) ==
    LET neg == Ch(s, 1) = "-"
        p == IF neg THEN 2 ELSE 1
        ie == RunEnd(s, p, Digit)
        fe == IF Ch(s, ie) = "." THEN RunEnd(s, ie + 1, Digit) ELSE ie
        nfrac == IF fe > ie THEN fe - ie - 1 ELSE 0
        f1 == IF nfrac >= 1 THEN DigitVal(Ch(s, ie + 1)) ELSE 0
        f2 == IF nfrac >= 2 THEN DigitVal(Ch(s, ie + 2)) ELSE 0
        mag == 100 * Decimal(s, p, ie) + 10 * f1 + f2
    IN  IF ie = p /\ nfrac = 0 THEN NaN
        ELSE Num(IF neg THEN 0 - mag ELSE mag)

(***************************************************************************)
(* Regular expressions.  A pattern is a sequence of items: a literal, a    *)
(* greedy repetition of a character class (optionally a capture group), or *)
(* an alternation of sub-patterns.  matchAt is the backtracking match at   *)
(* one index, String.prototype.match the leftmost index that matches.      *)
(***************************************************************************)
Lit(str) == [k |-> "lit", str |-> str]
One(C) == [k |-> "rep", cls |-> C, dot |-> FALSE, min |-> 1, many |-> FALSE, cap |-> ""]
Plus1(C) == [k |-> "rep", cls |-> C, dot |-> FALSE, min |-> 1, many |-> TRUE, cap |-> ""]
Star(C) == [k |-> "rep", cls |-> C, dot |-> FALSE, min |-> 0, many |-> TRUE, cap |-> ""]
\* .+
DotPlus == [k |-> "rep", cls |-> {}, dot |-> TRUE, min |-> 1, many |-> TRUE, cap |-> ""]
Cap(name, item) == [item EXCEPT !.cap = name]
Alt(ps) == [k |-> "alt", alts |-> ps]

NoMatch == [ok |-> FALSE]

InClass(c, it) == c # "" /\ (it.dot \/ c \in it.cls)

RECURSIVE greedyEnd(_, _, _)
greedyEnd(s, i, it) == IF InClass(Ch(s, i), it) THEN greedyEnd(s, i + 1, it) ELSE i

RECURSIVE matchAt(_, _, _, _)
RECURSIVE backtrack(_, _, _, _, _, _)
RECURSIVE tryAlts(_, _, _, _, _)
\* pat matched at index i of s, c the groups captured so far
matchAt(s, i, pat, c) ==
    IF pat = << >> THEN c
    ELSE CASE Head(pat).k = "lit" ->
                IF StartsAt(s, i, Head(pat).str)
                THEN matchAt(s, i + Len(Head(pat).str), Tail(pat), c)
                ELSE NoMatch
           [] Head(pat).k = "alt" -> tryAlts(s, i, Head(pat).alts, Tail(pat), c)
           [] Head(pat).k = "rep" ->
                backtrack(s, i,
                          IF Head(pat).many THEN greedyEnd(s, i, Head(pat))
                          ELSE IF InClass(Ch(s, i), Head(pat)) THEN i + 1 ELSE i,
                          Head(pat), Tail(pat), c)

\* the repetition takes s[i..j-1]; on failure of the rest it gives one back
backtrack(s, i, j, it, rest, c) ==
    IF j - i < it.min THEN NoMatch
    ELSE IF matchAt(s, j, rest, IF it.cap = "" THEN c ELSE (it.cap :> SubSeq(s, i, j - 1)) @@ c).ok
    THEN matchAt(s, j, rest, IF it.cap = "" THEN c ELSE (it.cap :> SubSeq(s, i, j - 1)) @@ c)
    ELSE backtrack(s, i, j - 1, it, rest, c)

\* the alternatives in order
tryAlts(s, i, alts, rest, c) ==
    IF alts = << >> THEN NoMatch
    ELSE IF matchAt(s, i, Head(alts) \o rest, c).ok
    THEN matchAt(s, i, Head(alts) \o rest, c)
    ELSE tryAlts(s, i, Tail(alts), rest, c)

RECURSIVE matchFrom(_, _, _)
matchFrom(s, i, pat) ==
    IF i > Len(s) + 1 THEN NoMatch
    ELSE IF matchAt(s, i, pat, [ok |-> TRUE]).ok THEN matchAt(s, i, pat, [ok |-> TRUE])
    ELSE matchFrom(s, i + 1, pat)

\* String.prototype.match with a pattern without the g flag
match(s, pat) == matchFrom(s, 1, pat)

\* /PID\s*-\s*([A-Z0-9]+)/
pidPattern == << Lit("PID"), Star(Space), Lit("-"), Star(Space), Cap("g1", Plus1(Upper \cup Digit)) >>

\* (\d+)\s+(\d+)\s+([\d.]+)\(([H])\), the groups named g<n>, g<n+1>, g<n+2>, g<n+3>
dmsPattern(g1, g2, g3, g4, H) ==
    << Cap(g1, Plus1(Digit)), Plus1(Space), Cap(g2, Plus1(Digit)), Plus1(Space),
       Cap(g3, Plus1(Digit \cup {"."})), Lit("("), Cap(g4, One(H)), Lit(")") >>

\* /(\d+)\s+(\d+)\s+([\d.]+)\(([NS])\)\s+(\d+)\s+(\d+)\s+([\d.]+)\(([EW])\)/
coordPattern ==
    dmsPattern("g1", "g2", "g3", "g4", {"N", "S"}) \o << Plus1(Space) >>
        \o dmsPattern("g5", "g6", "g7", "g8", {"E", "W"})

\* /(\d+)\s+(\d+)\s+([\d.]+)\(N\)\s+(\d+)\s+(\d+)\s+([\d.]+)\(W\)/ (test variant):
\* the hemisphere letters are literals, so the degrees of longitude are groups 4 to 6
coordPatternNW ==
    << Cap("g1", Plus1(Digit)), Plus1(Space), Cap("g2", Plus1(Digit)), Plus1(Space),
       Cap("g3", Plus1(Digit \cup {"."})), Lit("(N)"), Plus1(Space),
       Cap("g4", Plus1(Digit)), Plus1(Space), Cap("g5", Plus1(Digit)), Plus1(Space),
       Cap("g6", Plus1(Digit \cup {"."})), Lit("(W)") >>

\* /(?:ELLIP HT-|ORTHO HEIGHT\s*-)\s*([\d.-]+)\s*\(meters\)/
elevPattern ==
    << Alt(<< << Lit("ELLIP HT-") >>, << Lit("ORTHO HEIGHT"), Star(Space), Lit("-") >> >>),
       Star(Space), Cap("g1", Plus1(Digit \cup {".", "-"})), Star(Space), Lit("(meters)") >>

\* /DESIGNATION\s*-\s*(.+)/
namePattern == << Lit("DESIGNATION"), Star(Space), Lit("-"), Star(Space), Cap("g1", DotPlus) >>

(***************************************************************************)
(* Input lines.  A file is a sequence of lines drawn from one vocabulary;  *)
(* every vocabulary holds a boundary line, a PID line and a POSITION line, *)
(* so that records can be completed, and the lines of one rule family.     *)
(***************************************************************************)
Marker == "National Geodetic Survey, Retrieval Date"

L_HDR == "1        National Geodetic Survey, Retrieval Date = JULY 10, 2024"
L_PID == " AB1234  PID         -  AB1234"
L_POS == " AB1234* NAD 83(2011) POSITION- 45 30 00.00(N) 122 30 00.00(W)   ADJUSTED"
\* latitude exactly 0
L_POS0 == " AB1234* NAD 83(2011) POSITION- 0 0 0.00(N) 75 0 0.00(W)   ADJUSTED"
\* southern and eastern hemisphere, outside the legal ranges
L_POSSE == " AB1234* NAD 83(2011) POSITION- 95 15 30.50(S) 200 45 10.25(E)   ADJUSTED"
L_ELLIP == " AB1234* NAD 83(2011) ELLIP HT- 152.91 (meters)        (06/27/12)   ADJUSTED"
L_ORTHO == " AB1234* NAVD 88 ORTHO HEIGHT - 143.82 (meters)      471.9 (feet) ADJUSTED"
L_NAME == " AB1234  DESIGNATION -  TEST POINT  "
L_STATE == " AB1234  STATE/COUNTY-  CA/IMPERIAL"
L_CORS == " AB1234  CORS        -  This is a GPS Continuously Operating Reference Station."
L_VERT == " AB1234.The orthometric height was determined by VERTICAL control leveling."
\* the seconds of the latitude are a lone '.', the height a lone '-': the
\* patterns match, the captures are no numbers
L_POSBAD == " AB1234* NAD 83(2011) POSITION- 45 30 .(N) 122 30 00.00(W)   ADJUSTED"
L_ELLIPBAD == " AB1234* NAD 83(2011) ELLIP HT- - (meters)        (06/27/12)   ADJUSTED"
\* a boundary line that also carries the PID tag
L_HDRPID == "1 National Geodetic Survey, Retrieval Date = JULY 10, 2024  PID - CD5678"

\* a second name, and a PID and a DESIGNATION line their patterns do not match
L_NAME2 == " AB1234  DESIGNATION -  SECOND MARK"
L_NAMEBAD == " AB1234  DESIGNATION -"
L_PIDBAD == " AB1234  PID         -  (withheld)"

\* lines with more than one type keyword, the one of lower priority first
L_VERTTRI == " AB1234.This VERTICAL control mark is also a TRIANGULATION station."
L_TRICORS == " AB1234.The TRIANGULATION station is tied to the CORS network."
L_CORSPACS == " AB1234.CORS site at the airport, a PACS with VERTICAL control."

VocPosition == {L_HDR, L_PID, L_POS, L_POS0, L_POSSE}
VocElevation == {L_HDR, L_PID, L_POS, L_ELLIP, L_ORTHO}
VocType == {L_HDR, L_PID, L_POS, L_CORS, L_VERT}
VocName == {L_HDR, L_PID, L_POS, L_NAME, L_STATE}
VocDense == {L_HDRPID, L_POS, L_POS0}
VocMalformed == {L_HDRPID, L_POS, L_POSBAD, L_ELLIP, L_ELLIPBAD}
VocId == {L_HDR, L_HDRPID, L_PID, L_PIDBAD, L_POS}
VocDesignation == {L_HDRPID, L_NAME, L_NAME2, L_NAMEBAD, L_POS}
VocKeywords == {L_HDRPID, L_POS, L_VERTTRI, L_TRICORS, L_CORSPACS}
Vocabularies ==
    {VocPosition, VocElevation, VocType, VocName, VocDense, VocMalformed, VocId, VocDesignation,
     VocKeywords}
\* the lines of the files of a batch run
VocBatch == {L_HDRPID, L_POS, L_STATE, L_CORS}
AllLines == UNION (Vocabularies \cup {VocBatch})

Regions == {"AK", "CA"}
Variants == {"limited", "full", "test"}

(***************************************************************************)
(* What the tests and matches of the loop body find in a line.  Computed   *)
(* once per line of the vocabularies.                                      *)
(***************************************************************************)
LineFacts(line) ==
    [boundary |-> includes(line, Marker),
     hasPID |-> includes(line, "PID") /\ includes(line, "-"),
     pidMatch |-> match(line, pidPattern),
     hasPOSITION |-> includes(line, "POSITION-"),
     hasNS |-> includes(line, "N)") \/ includes(line, "S)"),
     hasWE |-> includes(line, "W)") \/ includes(line, "E)"),
     hasN |-> includes(line, "N)"),
     hasW |-> includes(line, "W)"),
     coordMatch |-> match(line, coordPattern),
     coordMatchNW |-> match(line, coordPatternNW),
     hasHT |-> includes(line, "ELLIP HT-") \/ includes(line, "ORTHO HEIGHT"),
     elevMatch |-> match(line, elevPattern),
     hasDESIGNATION |-> includes(line, "DESIGNATION") /\ includes(line, "-"),
     nameMatch |-> match(line, namePattern),
     PACS |-> includes(line, "PACS"),
     CORS |-> includes(line, "CORS"),
     TRIANGULATION |-> includes(line, "TRIANGULATION"),
     VERTICAL |-> includes(line, "VERTICAL")]
Facts == [l \in AllLines |-> LineFacts(l)]

(***************************************************************************)
(* State.                                                                  *)
(***************************************************************************)
VARIABLES
    variant,            \* which script is running
    vocabulary,         \* the lines the files are made of
    budget,             \* lines that may still be read
    stateCode,          \* parseDatasheetFile's second argument
    fileName,           \* path.basename(filePath)
    pc,                 \* "idle": no call; "loop": inside for await (const line of rl);
                        \* "returned": returned after the loop; "caught": returned from catch
    currentBenchmark,   \* let currentBenchmark
    benchmarkCount,     \* let benchmarkCount (limited and full variants)
    benchmarks,         \* this.benchmarks
    ret,                \* the value the call returned
    consumed,           \* history: the lines the loop has taken from rl in this call
    blockStart,         \* history: index in consumed of the line that opened currentBenchmark
    spans,              \* history: for each element of benchmarks, the block it was built from
    root,               \* the directory tree under this.datasheetDir
    bpc,                \* where processAllDatasheets is
    folderIdx,          \* the position of for (const folder of stateFolders)
    totalBenchmarks,    \* let totalBenchmarks
    processedStates,    \* let processedStates
    written,            \* what was written to this.outputFile
    batchRet,           \* the value processAllDatasheets returned
    stats,              \* the summary built by getSummary / printStatistics
    run,                \* 1, and 2 when the same file is parsed again by a new parser
    first               \* history: how the first run went

parseVars == << stateCode, fileName, pc, currentBenchmark, benchmarkCount, benchmarks, ret,
                consumed, blockStart, spans >>
batchVars == << root, bpc, folderIdx, totalBenchmarks, processedStates, written, batchRet,
               stats >>
vars == << variant, vocabulary, budget, parseVars, batchVars, run, first >>

\* lineCount++ at the head of the loop body (limited and test variants)
lineCount == Len(consumed)

Undefined == [kind |-> "undefined"]
Arr(a) == [kind |-> "array", a |-> a]

\* `/data/datasheets/${stateCode}/${path.basename(filePath)}`
datasheetUrl(sc, fn) == Str("/data/datasheets/" \o sc \o "/" \o fn)

\* `NGS ${type} control point in ${stateCode}`
describe(type, sc) == Str("NGS " \o type.s \o " control point in " \o sc)

\* state taken from the name of the file instead of the stateCode argument
newBenchmark_StateFromFile(v, sc, fn) ==
    [kind |-> "obj", id |-> Null, name |-> Null, type |-> Str("Control Point"),
     latitude |-> Null, longitude |-> Null, elevation |-> Null, state |-> Str(fn),
     description |-> Null,
     datasheet_url |-> IF v = "full" THEN datasheetUrl(sc, fn) ELSE Undefined]

\* Mutant: the elevation of the record being closed is kept in the new one.
newBenchmark_KeepsElevation(v, sc, fn) ==
    [kind |-> "obj", id |-> Null, name |-> Null, type |-> Str("Control Point"),
     latitude |-> Null, longitude |-> Null,
     elevation |-> IF Truthy(currentBenchmark) THEN currentBenchmark.elevation ELSE Null,
     state |-> Str(sc), description |-> Null,
     datasheet_url |-> IF v = "full" THEN datasheetUrl(sc, fn) ELSE Undefined]

\* The object literal assigned to currentBenchmark at a boundary line.
newBenchmark(v, sc, fn) ==
    [kind |-> "obj", id |-> Null, name |-> Null, type |-> Str("Control Point"),
     latitude |-> Null, longitude |-> Null, elevation |-> Null, state |-> Str(sc),
     description |-> Null,
     datasheet_url |-> IF v = "full" THEN datasheetUrl(sc, fn) ELSE Undefined]

\* currentBenchmark && currentBenchmark.latitude && currentBenchmark.longitude
\* && currentBenchmark.id; the test variant does not look at the id.
isValid(v, cur) ==
    /\ Truthy(cur)
    /\ Truthy(cur.latitude)
    /\ Truthy(cur.longitude)
    /\ (v # "test" => Truthy(cur.id))

\* What is pushed: the limited variant fills description and datasheet_url first.
finalized(v, cur, sc, fn) ==
    IF v = "limited"
    THEN [cur EXCEPT !.description = IF Truthy(cur.description) THEN cur.description
                                     ELSE describe(cur.type, sc),
                     !.datasheet_url = datasheetUrl(sc, fn)]
    ELSE cur

(***************************************************************************)
(* The field rules of the loop body, in the order of the source.           *)
(***************************************************************************)
\* Parse PID
parsePID(cur, f) ==
    IF f.hasPID /\ f.pidMatch.ok THEN [cur EXCEPT !.id = Str(f.pidMatch.g1)] ELSE cur

\* Mutant: the seconds divided by 60 instead of 3600.
decimalDegrees_SecondsAsMinutes(deg, min, sec) ==
    Plus(Plus(Times(parseInt(deg), 360000), Times(parseInt(min), 6000)), Times(parseFloat(sec), 60))

\* latDeg + (latMin / 60) + (latSec / 3600), in 1/360000 degree
decimalDegrees(deg, min, sec) ==
    Plus(Plus(Times(parseInt(deg), 360000), Times(parseInt(min), 6000)), parseFloat(sec))

\* Mutant: a guard that keeps the first position matched.
parseCoordinates_FirstWins(cur, f, guard) ==
    IF guard /\ f.coordMatch.ok /\ cur.latitude = Null
    THEN LET latitude == decimalDegrees(f.coordMatch.g1, f.coordMatch.g2, f.coordMatch.g3)
             longitude == decimalDegrees(f.coordMatch.g5, f.coordMatch.g6, f.coordMatch.g7)
         IN  [cur EXCEPT !.latitude = IF f.coordMatch.g4 = "S" THEN Negate(latitude) ELSE latitude,
                         !.longitude = IF f.coordMatch.g8 = "W" THEN Negate(longitude) ELSE longitude]
    ELSE cur

\* Parse coordinates.  Limited and full variants: the hemisphere letters are
\* groups 4 and 8, and the sign follows them.
parseCoordinates(cur, f, guard) ==
    IF guard /\ f.coordMatch.ok
    THEN LET latitude == decimalDegrees(f.coordMatch.g1, f.coordMatch.g2, f.coordMatch.g3)
             longitude == decimalDegrees(f.coordMatch.g5, f.coordMatch.g6, f.coordMatch.g7)
         IN  [cur EXCEPT !.latitude = IF f.coordMatch.g4 = "S" THEN Negate(latitude) ELSE latitude,
                         !.longitude = IF f.coordMatch.g8 = "W" THEN Negate(longitude) ELSE longitude]
    ELSE cur

\* Parse coordinates, test variant: north and west only.
parseCoordinatesNW(cur, f) ==
    IF f.hasPOSITION /\ f.hasN /\ f.hasW /\ f.coordMatchNW.ok
    THEN [cur EXCEPT !.latitude = decimalDegrees(f.coordMatchNW.g1, f.coordMatchNW.g2, f.coordMatchNW.g3),
                     !.longitude = Negate(decimalDegrees(f.coordMatchNW.g4, f.coordMatchNW.g5,
                                                         f.coordMatchNW.g6))]
    ELSE cur

\* The includes() tests in front of the coordinate match.
positionGuard(v, f) ==
    IF v = "full" THEN f.hasPOSITION ELSE f.hasPOSITION /\ f.hasNS /\ f.hasWE

\* Mutant: an elevation once set is kept.
parseElevation_FirstWins(cur, f) ==
    IF f.hasHT /\ f.elevMatch.ok /\ cur.elevation = Null
    THEN [cur EXCEPT !.elevation = parseFloat(f.elevMatch.g1)]
    ELSE cur

\* Parse elevation
parseElevation(cur, f) ==
    IF f.hasHT /\ f.elevMatch.ok
    THEN [cur EXCEPT !.elevation = parseFloat(f.elevMatch.g1)]
    ELSE cur

\* Parse designation for name
\* Mutant: the name is set only while it is still null.
parseDesignation_FirstWins(cur, f) ==
    IF f.hasDESIGNATION /\ f.nameMatch.ok /\ cur.name = Null
    THEN [cur EXCEPT !.name = Str(trim(f.nameMatch.g1))] ELSE cur

parseDesignation(cur, f) ==
    IF f.hasDESIGNATION /\ f.nameMatch.ok
    THEN [cur EXCEPT !.name = Str(trim(f.nameMatch.g1))]
    ELSE cur

\* Mutant: the keyword priority carried across lines, a lower keyword not
\* replacing a higher one set by an earlier line.
determineType_Priority(cur, f) ==
    IF f.PACS THEN [cur EXCEPT !.type = Str("Primary Airport Control")]
    ELSE IF f.CORS /\ cur.type # Str("Primary Airport Control")
    THEN [cur EXCEPT !.type = Str("CORS Station")]
    ELSE IF f.TRIANGULATION /\ cur.type \notin {Str("Primary Airport Control"), Str("CORS Station")}
    THEN [cur EXCEPT !.type = Str("Triangulation Station")]
    ELSE IF f.VERTICAL /\ cur.type \in {Str("Control Point"), Str("Vertical Control")}
    THEN [cur EXCEPT !.type = Str("Vertical Control")]
    ELSE cur

\* Determine type based on content (limited and full variants)
\* Mutant: the keyword itself is stored as the type.
determineType_KeywordAsType(cur, f) ==
    IF f.PACS THEN [cur EXCEPT !.type = Str("PACS")]
    ELSE IF f.CORS THEN [cur EXCEPT !.type = Str("CORS")]
    ELSE IF f.TRIANGULATION THEN [cur EXCEPT !.type = Str("TRIANGULATION")]
    ELSE IF f.VERTICAL THEN [cur EXCEPT !.type = Str("VERTICAL")]
    ELSE cur

\* Mutant: the keywords are tested in the reverse order.
determineType_ReversedPriority(cur, f) ==
    IF f.VERTICAL THEN [cur EXCEPT !.type = Str("Vertical Control")]
    ELSE IF f.TRIANGULATION THEN [cur EXCEPT !.type = Str("Triangulation Station")]
    ELSE IF f.CORS THEN [cur EXCEPT !.type = Str("CORS Station")]
    ELSE IF f.PACS THEN [cur EXCEPT !.type = Str("Primary Airport Control")]
    ELSE cur

determineType(cur, f) ==
    IF f.PACS THEN [cur EXCEPT !.type = Str("Primary Airport Control")]
    ELSE IF f.CORS THEN [cur EXCEPT !.type = Str("CORS Station")]
    ELSE IF f.TRIANGULATION THEN [cur EXCEPT !.type = Str("Triangulation Station")]
    ELSE IF f.VERTICAL THEN [cur EXCEPT !.type = Str("Vertical Control")]
    ELSE cur

\* Mutant: without the if (currentBenchmark) guard, a record being opened by
\* the first line that is read.
extractFields_Unguarded(v, cur, f) ==
    LET c == IF Truthy(cur) THEN cur ELSE newBenchmark(v, stateCode, fileName)
    IN  IF v = "test"
        THEN parseDesignation(parseElevation(parseCoordinatesNW(parsePID(c, f), f), f), f)
        ELSE determineType(parseDesignation(parseElevation(
                 parseCoordinates(parsePID(c, f), f, positionGuard(v, f)), f), f), f)

\* Mutant: an else branch, the boundary line not given to the field rules.
extractFields_NotAtBoundary(v, cur, f) ==
    IF ~Truthy(cur) \/ f.boundary THEN cur
    ELSE IF v = "test"
    THEN parseDesignation(parseElevation(parseCoordinatesNW(parsePID(cur, f), f), f), f)
    ELSE determineType(parseDesignation(parseElevation(
             parseCoordinates(parsePID(cur, f), f, positionGuard(v, f)), f), f), f)

\* if (currentBenchmark) { ... }
extractFields(v, cur, f) ==
    IF ~Truthy(cur) THEN cur
    ELSE IF v = "test"
    THEN parseDesignation(parseElevation(parseCoordinatesNW(parsePID(cur, f), f), f), f)
    ELSE determineType(parseDesignation(parseElevation(
             parseCoordinates(parsePID(cur, f), f, positionGuard(v, f)), f), f), f)

(***************************************************************************)
(* parseDatasheetFile.                                                     *)
(***************************************************************************)
\* The code after the loop: "Save the last benchmark", then return.  `last`
\* is the index of the last line that was handed to the field rules.
afterLoop(cur, bms, cnt, sps, last) ==
    LET emit == isValid(variant, cur)
        out == IF emit THEN Append(bms, finalized(variant, cur, stateCode, fileName)) ELSE bms
        n == IF emit /\ variant # "test" THEN cnt + 1 ELSE cnt
    IN  /\ currentBenchmark' = IF emit THEN finalized(variant, cur, stateCode, fileName) ELSE cur
        /\ benchmarks' = out
        /\ benchmarkCount' = n
        /\ spans' = IF emit
                    THEN Append(sps, [folder |-> folderIdx, first |-> blockStart', last |-> last,
                                      lines |-> SubSeq(consumed', blockStart', last)])
                    ELSE sps
        /\ ret' = IF variant = "test" THEN Arr(out) ELSE Num(n)
        /\ pc' = "returned"

\* The lines rl can deliver next: any line of the vocabulary, and in a second
\* run the line the first run read at this position.
Deliverable(line) ==
    /\ line \in vocabulary
    /\ run = 2 => /\ Len(consumed) < Len(first.consumed)
                  /\ line = first.consumed[Len(consumed) + 1]

\* Mutant: the validity check and the push run on every line.
ReadLine_EmitsOnAnyLine(line) ==
    /\ pc = "loop"
    /\ budget > 0
    /\ Deliverable(line)
    /\ LET f == Facts[line]
           n == Len(consumed) + 1
           emit == isValid(variant, currentBenchmark)
           saved == finalized(variant, currentBenchmark, stateCode, fileName)
           pushed == IF emit THEN Append(benchmarks, saved) ELSE benchmarks
           count == IF emit /\ variant # "test" THEN benchmarkCount + 1 ELSE benchmarkCount
           sps == IF emit
                  THEN Append(spans, [folder |-> folderIdx, first |-> blockStart, last |-> n - 1,
                                      lines |-> SubSeq(consumed, blockStart, n - 1)])
                  ELSE spans
           opened == IF f.boundary THEN newBenchmark(variant, stateCode, fileName)
                     ELSE currentBenchmark
           cur == extractFields(variant, opened, f)
       IN  /\ consumed' = Append(consumed, line)
           /\ budget' = budget - 1
           /\ IF emit /\ variant # "test" /\ count >= maxBenchmarks
              THEN \* break, leaving currentBenchmark on the record just pushed
                   /\ blockStart' = blockStart
                   /\ afterLoop(saved, pushed, count, sps, n - 1)
              ELSE /\ blockStart' = IF f.boundary THEN n ELSE blockStart
                   /\ IF variant = "test" /\ n > testLineLimit
                      THEN \* Stop after processing some lines for testing
                           afterLoop(cur, pushed, count, sps, n)
                      ELSE /\ currentBenchmark' = cur
                           /\ benchmarks' = pushed
                           /\ benchmarkCount' = count
                           /\ spans' = sps
                           /\ UNCHANGED << ret, pc >>
    /\ UNCHANGED << variant, vocabulary, stateCode, fileName, batchVars, run, first >>

\* One iteration of for await (const line of rl).
ReadLine(line) ==
    /\ pc = "loop"
    /\ budget > 0
    /\ Deliverable(line)
    /\ LET f == Facts[line]
           n == Len(consumed) + 1
           emit == f.boundary /\ isValid(variant, currentBenchmark)
           saved == finalized(variant, currentBenchmark, stateCode, fileName)
           pushed == IF emit THEN Append(benchmarks, saved) ELSE benchmarks
           count == IF emit /\ variant # "test" THEN benchmarkCount + 1 ELSE benchmarkCount
           sps == IF emit
                  THEN Append(spans, [folder |-> folderIdx, first |-> blockStart, last |-> n - 1,
                                      lines |-> SubSeq(consumed, blockStart, n - 1)])
                  ELSE spans
           opened == IF f.boundary THEN newBenchmark(variant, stateCode, fileName)
                     ELSE currentBenchmark
           cur == extractFields(variant, opened, f)
       IN  /\ consumed' = Append(consumed, line)
           /\ budget' = budget - 1
           /\ IF emit /\ variant # "test" /\ count >= maxBenchmarks
              THEN \* break, leaving currentBenchmark on the record just pushed
                   /\ blockStart' = blockStart
                   /\ afterLoop(saved, pushed, count, sps, n - 1)
              ELSE /\ blockStart' = IF f.boundary THEN n ELSE blockStart
                   /\ IF variant = "test" /\ n > testLineLimit
                      THEN \* Stop after processing some lines for testing
                           afterLoop(cur, pushed, count, sps, n)
                      ELSE /\ currentBenchmark' = cur
                           /\ benchmarks' = pushed
                           /\ benchmarkCount' = count
                           /\ spans' = sps
                           /\ UNCHANGED << ret, pc >>
    /\ UNCHANGED << variant, vocabulary, stateCode, fileName, batchVars, run, first >>

\* rl is exhausted: the loop ends and the code after it runs.
EndOfInput ==
    /\ pc = "loop"
    /\ run = 2 => first.pc = "returned" /\ Len(consumed) = Len(first.consumed)
    /\ UNCHANGED << consumed, blockStart >>
    /\ afterLoop(currentBenchmark, benchmarks, benchmarkCount, spans, Len(consumed))
    /\ UNCHANGED << variant, vocabulary, budget, stateCode, fileName, batchVars, run, first >>

\* The stream fails (file missing or unreadable): catch (error) { return 0 },
\* return [] in the test variant.
ReadError ==
    /\ pc = "loop"
    /\ run = 2 => first.pc = "caught" /\ Len(consumed) = Len(first.consumed)
    /\ ret' = IF variant = "test" THEN Arr(<< >>) ELSE Num(0)
    /\ pc' = "caught"
    /\ UNCHANGED << variant, vocabulary, budget, stateCode, fileName, currentBenchmark,
                    benchmarkCount, benchmarks, consumed, blockStart, spans, batchVars,
                    run, first >>

\* No batch run: processAllDatasheets is not on the stack.
NoBatch ==
    /\ root = Undefined
    /\ bpc = "none"
    /\ folderIdx = 0
    /\ totalBenchmarks = 0
    /\ processedStates = 0
    /\ written = Undefined
    /\ batchRet = Undefined
    /\ stats = Undefined

\* A new parser (constructor) entering parseDatasheetFile(filePath, stateCode).
Init ==
    /\ variant \in Variants
    /\ vocabulary \in Vocabularies
    /\ budget = MaxLines
    /\ stateCode \in Regions
    /\ fileName = stateCode \o ".txt"
    /\ pc = "loop"
    /\ currentBenchmark = Null
    /\ benchmarkCount = 0
    /\ benchmarks = << >>
    /\ ret = Undefined
    /\ consumed = << >>
    /\ blockStart = 0
    /\ spans = << >>
    /\ NoBatch
    /\ run = 1
    /\ first = Undefined

Next ==
    \/ \E line \in AllLines : ReadLine(line)
    \/ EndOfInput
    \/ ReadError

Spec == Init /\ [][Next]_vars

(***************************************************************************)
(* processAllDatasheets (limited and full variants).                       *)
(***************************************************************************)
\* What fs.readdir and fs.stat answer for the entries under datasheetDir.
Dir(name, files) == [name |-> name, stat |-> "dir", readdir |-> "ok", files |-> files]
DirUnreadable(name) == [name |-> name, stat |-> "dir", readdir |-> "error", files |-> << >>]
File(name) == [name |-> name, stat |-> "file", readdir |-> "error", files |-> << >>]
StatFails(name) == [name |-> name, stat |-> "error", readdir |-> "error", files |-> << >>]
Listing(entries) == [readdir |-> "ok", entries |-> entries]
RootUnreadable == [readdir |-> "error", entries |-> << >>]

Listings ==
    { Listing(<< Dir("AK", << "AK.txt" >>), Dir("CA", << "CA.txt" >>) >>),
      Listing(<< Dir("AK", << "readme.md" >>), Dir("CA", << "CA.dat", "CA.txt" >>) >>),
      Listing(<< File("index.html"), Dir("Zips", << "AK.txt" >>), Dir("CA", << "CA.txt" >>) >>),
      Listing(<< Dir("AK", << "AK.txt" >>), Dir("CA", << "CA.txt" >>), Dir("HI", << "HI.txt" >>) >>),
      Listing(<< Dir("AK", << "AK.txt" >>), StatFails("CA") >>),
      Listing(<< Dir("AK", << "AK.txt" >>), DirUnreadable("CA") >>),
      RootUnreadable }

\* new Date().toISOString() at the time of saving
Timestamps == {"2025-01-01T00:00:00.000Z", "2025-01-02T00:00:00.000Z"}

endsWith(s, suffix) ==
    /\ Len(s) >= Len(suffix)
    /\ SubSeq(s, Len(s) - Len(suffix) + 1, Len(s)) = suffix

\* Mutant: a folder without a matching file has its first file parsed.
datasheetFile_AnyFile(v, files) ==
    LET I == {i \in 1..Len(files) :
                 \/ endsWith(files[i], ".txt")
                 \/ v = "limited" /\ endsWith(files[i], ".dat")}
    IN  IF files = << >> THEN Undefined
        ELSE IF I = {} THEN Str(files[1])
        ELSE Str(files[CHOOSE i \in I : \A j \in I : i <= j])

\* Mutant: the last matching file of the listing instead of the first.
datasheetFile_Last(v, files) ==
    LET I == {i \in 1..Len(files) :
                 \/ endsWith(files[i], ".txt")
                 \/ v = "limited" /\ endsWith(files[i], ".dat")}
    IN  IF I = {} THEN Undefined ELSE Str(files[CHOOSE i \in I : \A j \in I : i >= j])

\* The file of a folder that is parsed: txtFiles.find(file => file.endsWith('.txt'))
\* in the full variant, the first .txt or .dat file in the limited variant.
datasheetFile(v, files) ==
    LET I == {i \in 1..Len(files) :
                 \/ endsWith(files[i], ".txt")
                 \/ v = "limited" /\ endsWith(files[i], ".dat")}
    IN  IF I = {} THEN Undefined ELSE Str(files[CHOOSE i \in I : \A j \in I : i <= j])

\* The condition under which a folder is looked into.
isStateFolder(v, e) ==
    /\ e.stat = "dir"
    /\ v = "limited" => Len(e.name) <= 3 /\ e.name # "Zips"

\* catch (error) of processAllDatasheets: the limited variant returns [], the
\* full variant logs and returns nothing.  Nothing is saved.
batchCaught ==
    /\ bpc' = "failed"
    /\ batchRet' = IF variant = "limited" THEN Arr(<< >>) ELSE Undefined
    /\ UNCHANGED << folderIdx, parseVars >>

\* const stateFolders = await fs.readdir(this.datasheetDir)
ListRoot ==
    /\ bpc = "start"
    /\ IF root.readdir = "error"
       THEN batchCaught
       ELSE /\ bpc' = "loop"
            /\ folderIdx' = 1
            /\ UNCHANGED << batchRet, parseVars >>
    /\ UNCHANGED << variant, vocabulary, budget, root, totalBenchmarks, processedStates,
                    written, stats, run, first >>

\* The loop is over when the folders are exhausted, and in the limited variant
\* when maxStates folders have been processed.
foldersDone ==
    \/ folderIdx > Len(root.entries)
    \/ variant = "limited" /\ processedStates >= maxStates

\* One iteration of for (const folder of stateFolders), up to the call of
\* parseDatasheetFile.
NextFolder ==
    /\ bpc = "loop"
    /\ ~foldersDone
    /\ LET e == root.entries[folderIdx]
           file == datasheetFile(variant, e.files)
       IN  IF e.stat = "error" \/ (isStateFolder(variant, e) /\ e.readdir = "error")
           THEN /\ batchCaught
                /\ UNCHANGED processedStates
           ELSE IF isStateFolder(variant, e) /\ file # Undefined
           THEN \* this.parseDatasheetFile(filePath, folder)
                /\ bpc' = "parsing"
                /\ stateCode' = e.name
                /\ fileName' = file.s
                /\ pc' = "loop"
                /\ currentBenchmark' = Null
                /\ benchmarkCount' = 0
                /\ consumed' = << >>
                /\ blockStart' = 0
                /\ UNCHANGED << folderIdx, processedStates, benchmarks, ret, spans, batchRet >>
           ELSE \* nothing to parse in this entry
                /\ folderIdx' = folderIdx + 1
                /\ processedStates' = IF variant = "limited" /\ isStateFolder(variant, e)
                                      THEN processedStates + 1 ELSE processedStates
                /\ UNCHANGED << bpc, batchRet, parseVars >>
    /\ UNCHANGED << variant, vocabulary, budget, root, totalBenchmarks, written, stats, run,
                    first >>

\* totalBenchmarks += count; processedStates++
AfterParse ==
    /\ bpc = "parsing"
    /\ pc \in {"returned", "caught"}
    /\ totalBenchmarks' = totalBenchmarks + ret.n
    /\ processedStates' = processedStates + 1
    /\ folderIdx' = folderIdx + 1
    /\ bpc' = "loop"
    /\ pc' = "idle"
    /\ UNCHANGED << variant, vocabulary, budget, stateCode, fileName, currentBenchmark,
                    benchmarkCount, benchmarks, ret, consumed, blockStart, spans, root,
                    written, batchRet, stats, run, first >>

\* Mutant: the template filled with the region parsed last, not the record's own.
backfill_CurrentRegion(bms) ==
    [i \in DOMAIN bms |->
        IF Truthy(bms[i].description) THEN bms[i]
        ELSE [bms[i] EXCEPT !.description = describe(bms[i].type, stateCode)]]

\* Mutant: the backfill also gives a record without a name its id as name.
backfill_AlsoName(bms) ==
    [i \in DOMAIN bms |->
        IF Truthy(bms[i].description) THEN bms[i]
        ELSE [bms[i] EXCEPT !.description = describe(bms[i].type, bms[i].state.s),
                            !.name = IF bms[i].name = Null THEN bms[i].id ELSE bms[i].name]]

\* this.benchmarks.forEach(benchmark => { if (!benchmark.description) ... })
backfill(bms) ==
    [i \in DOMAIN bms |->
        IF Truthy(bms[i].description) THEN bms[i]
        ELSE [bms[i] EXCEPT !.description = describe(bms[i].type, bms[i].state.s)]]

\* Mutant: a key seen again is set to 1 again.
countBy_NoAccumulate(bms, field, n) ==
    [k \in {bms[i][field].s : i \in 1..n} |-> 1]

\* byType / byState after the first n records: a key is created at 0 when it
\* is first seen and incremented for every record that carries it.
RECURSIVE countBy(_, _, _)
countBy(bms, field, n) ==
    IF n = 0 THEN [k \in {} |-> 0]
    ELSE LET acc == countBy(bms, field, n - 1)
             key == bms[n][field].s
         IN  [k \in DOMAIN acc \cup {key} |->
                 IF k = key THEN (IF key \in DOMAIN acc THEN acc[key] ELSE 0) + 1
                 ELSE acc[k]]

\* getSummary of the limited variant
getSummary(bms) ==
    [total |-> Len(bms), byType |-> countBy(bms, "type", Len(bms)),
     byState |-> countBy(bms, "state", Len(bms))]

\* the stats object of printStatistics in the full variant
printStatistics(bms) ==
    [total |-> Len(bms), byType |-> countBy(bms, "type", Len(bms)),
     byState |-> countBy(bms, "state", Len(bms))]

\* saveResults of the full variant.
saveResults(io) ==
    /\ benchmarks' = IF io = "ensureDirFails" THEN benchmarks ELSE backfill(benchmarks)
    /\ written' = IF io = "ok" THEN Arr(benchmarks') ELSE written
    /\ stats' = IF io = "ok" THEN printStatistics(benchmarks') ELSE stats

\* saveBenchmarks of the limited variant.
saveBenchmarks(io, now) ==
    /\ benchmarks' = benchmarks
    /\ written' = IF io = "ok"
                  THEN [kind |-> "obj", benchmarks |-> Arr(benchmarks),
                        count |-> Num(Len(benchmarks)), generated |-> Str(now),
                        source |-> Str("NGS datasheets")]
                  ELSE written
    /\ stats' = stats

\* After the loop: save, log, and return.
SaveAndReturn(io, now) ==
    /\ bpc = "loop"
    /\ foldersDone
    /\ IF variant = "full" THEN saveResults(io) ELSE saveBenchmarks(io, now)
    /\ batchRet' = IF variant = "limited" THEN Arr(benchmarks') ELSE Undefined
    /\ bpc' = "done"
    /\ UNCHANGED << variant, vocabulary, budget, stateCode, fileName, pc, currentBenchmark,
                    benchmarkCount, ret, consumed, blockStart, spans, root, folderIdx,
                    totalBenchmarks, processedStates, run, first >>

\* main() of the limited variant, after processAllDatasheets has returned:
\* const summary = parser.getSummary()
Summarize ==
    /\ variant = "limited"
    /\ bpc \in {"done", "failed"}
    /\ stats' = getSummary(benchmarks)
    /\ bpc' = "exit"
    /\ UNCHANGED << variant, vocabulary, budget, parseVars, root, folderIdx, totalBenchmarks,
                    processedStates, written, batchRet, run, first >>

\* main(): a new parser, then processAllDatasheets().
InitBatch ==
    /\ variant \in {"limited", "full"}
    /\ vocabulary = VocBatch
    /\ budget = MaxLines
    /\ stateCode = ""
    /\ fileName = ""
    /\ pc = "idle"
    /\ currentBenchmark = Null
    /\ benchmarkCount = 0
    /\ benchmarks = << >>
    /\ ret = Undefined
    /\ consumed = << >>
    /\ blockStart = 0
    /\ spans = << >>
    /\ root \in Listings
    /\ bpc = "start"
    /\ folderIdx = 0
    /\ totalBenchmarks = 0
    /\ processedStates = 0
    /\ written = Undefined
    /\ batchRet = Undefined
    /\ stats = Undefined
    /\ run = 1
    /\ first = Undefined

NextBatch ==
    \/ ListRoot
    \/ NextFolder
    \/ \E line \in AllLines : ReadLine(line)
    \/ EndOfInput
    \/ ReadError
    \/ AfterParse
    \/ \E io \in {"ok", "ensureDirFails", "writeFails"}, now \in Timestamps : SaveAndReturn(io, now)
    \/ Summarize

SpecBatch == InitBatch /\ [][NextBatch]_vars

(***************************************************************************)
(* The same file parsed twice, each time by a new parser.                  *)
(***************************************************************************)
\* shares the collection of the previous parser instead of starting an empty one
NewParser_Shared ==
    benchmarks' = benchmarks

\* constructor(): this.benchmarks = []
NewParser ==
    benchmarks' = << >>

\* The first call is over; a second parser is constructed and given the same
\* filePath and stateCode.  The file has not changed: the second run is
\* delivered the lines of the first, and ends the way the first one ended.
CallAgain ==
    /\ run = 1
    /\ pc \in {"returned", "caught"}
    /\ first' = [pc |-> pc, benchmarks |-> benchmarks, ret |-> ret, consumed |-> consumed]
    /\ run' = 2
    /\ NewParser
    /\ pc' = "loop"
    /\ currentBenchmark' = Null
    /\ benchmarkCount' = 0
    /\ ret' = Undefined
    /\ consumed' = << >>
    /\ blockStart' = 0
    /\ spans' = << >>
    /\ budget' = MaxLines
    /\ UNCHANGED << variant, vocabulary, stateCode, fileName, batchVars >>

NextTwice ==
    \/ \E line \in AllLines : ReadLine(line)
    \/ EndOfInput
    \/ ReadError
    \/ CallAgain

\* Files of the two vocabularies that give several records per file.
InitTwice ==
    /\ Init
    /\ vocabulary \in {VocDense, VocPosition}

SpecTwice == InitTwice /\ [][NextTwice]_vars

(***************************************************************************)
(* Vocabulary of the properties.  What a line of the vocabularies holds is *)
(* written down here from its text, independently of the matchers above.   *)
(***************************************************************************)
Last(q) == q[Len(q)]
MaxOf(S) == CHOOSE k \in S : \A j \in S : j <= k
MinOf(S) == CHOOSE k \in S : \A j \in S : k <= j

BoundaryLines == {L_HDR, L_HDRPID}

\* The sextuple a POSITION- line carries (seconds in hundredths).
SextupleOf(l) ==
    CASE l = L_POS -> [latDeg |-> 45, latMin |-> 30, latSec |-> 0, latHem |-> "N",
                       lonDeg |-> 122, lonMin |-> 30, lonSec |-> 0, lonHem |-> "W"]
      [] l = L_POS0 -> [latDeg |-> 0, latMin |-> 0, latSec |-> 0, latHem |-> "N",
                        lonDeg |-> 75, lonMin |-> 0, lonSec |-> 0, lonHem |-> "W"]
      [] l = L_POSBAD -> [latDeg |-> 45, latMin |-> 30, latSec |-> "NaN", latHem |-> "N",
                          lonDeg |-> 122, lonMin |-> 30, lonSec |-> 0, lonHem |-> "W"]
      [] l = L_POSSE -> [latDeg |-> 95, latMin |-> 15, latSec |-> 3050, latHem |-> "S",
                         lonDeg |-> 200, lonMin |-> 45, lonSec |-> 1025, lonHem |-> "E"]

\* The lines the position rule of variant v matches: the test variant's
\* pattern knows only (N) and (W).
IsPositionLine(v, l) == l \in {L_POS, L_POS0, L_POSBAD} \/ (l = L_POSSE /\ v # "test")

\* deg + min/60 + sec/3600 in 1/360000 degree, negated for S and for W
ExpectedLatitude(l) ==
    LET x == SextupleOf(l)
        d == x.latDeg * 360000 + x.latMin * 6000 + x.latSec
    IN  IF l = L_POSBAD THEN NaN \* the seconds are no number
        ELSE Num(IF x.latHem = "S" THEN 0 - d ELSE d)
ExpectedLongitude(l) ==
    LET x == SextupleOf(l)
        d == x.lonDeg * 360000 + x.lonMin * 6000 + x.lonSec
    IN  Num(IF x.lonHem = "W" THEN 0 - d ELSE d)

\* The elevation (hundredths of a metre) of a line the elevation rule matches.
ElevationLines == {L_ELLIP, L_ORTHO, L_ELLIPBAD}
ExpectedElevation(l) ==
    CASE l = L_ELLIP -> Num(15291) [] l = L_ORTHO -> Num(14382) [] l = L_ELLIPBAD -> NaN

\* The type a line with a type keyword sets.
KeywordLines == {L_CORS, L_VERT, L_VERTTRI, L_TRICORS, L_CORSPACS}
ExpectedType(l) ==
    CASE l \in {L_CORS, L_TRICORS} -> Str("CORS Station")
      [] l = L_VERT -> Str("Vertical Control")
      [] l = L_VERTTRI -> Str("Triangulation Station")
      [] l = L_CORSPACS -> Str("Primary Airport Control")

\* The indices in consumed of the block benchmarks[i] was built from, and of
\* the block of the record in progress.
BlockOf(i) == spans[i].first .. spans[i].last
CurrentBlock == blockStart .. Len(consumed)
Building == pc = "loop" /\ Truthy(currentBenchmark)

\* id, latitude and longitude are all set
Complete(r) == r.id # Null /\ r.latitude # Null /\ r.longitude # Null

\* The record in progress is finalized by this step (limited and full
\* variants): a boundary line arrives or the input ends.
Finalizes ==
    /\ variant # "test"
    /\ Building
    /\ pc' = "returned" \/ blockStart' # blockStart

(***************************************************************************)
(* C1: a record that is finalized, at a boundary line or at end of input,  *)
(* is appended to the collection if and only if its id, latitude and       *)
(* longitude are not null, a latitude or longitude of exactly 0 included.  *)
(* The code tests truthiness, so a record on the equator is dropped.       *)
(***************************************************************************)
C1_RetainedIffComplete ==
    [][Finalizes => ((Len(benchmarks') > Len(benchmarks)) <=> Complete(currentBenchmark))]_vars

(***************************************************************************)
(* C2: when the call has returned, a record that was open at end of input  *)
(* and has id, latitude and longitude set is in the collection.            *)
(***************************************************************************)
C2_LastRecordFlushed ==
    (pc = "returned" /\ Truthy(currentBenchmark) /\ Complete(currentBenchmark))
        => \E i \in DOMAIN spans : spans[i].first = blockStart

(***************************************************************************)
(* C3: as long as no boundary line has been read, no record is in progress *)
(* and the collection is as it was; a file without a boundary line yields  *)
(* no record and a returned count of 0.                                    *)
(***************************************************************************)
Idle == \A k \in DOMAIN consumed : consumed[k] \notin BoundaryLines

C3_IdleChangesNothing ==
    Idle => /\ currentBenchmark = Null
            /\ benchmarks = << >>
            /\ benchmarkCount = 0
            /\ pc = "returned" => ret = IF variant = "test" THEN Arr(<< >>) ELSE Num(0)

C3_Witness ==
    /\ Idle
    /\ pc = "returned"
    /\ variant = "full"
    /\ \E j, k \in DOMAIN consumed : consumed[j] = L_PID /\ consumed[k] = L_POS

(***************************************************************************)
(* C4 as claimed: the coordinates of an emitted record are those of the    *)
(* first POSITION- line of its block that matched.                         *)
(***************************************************************************)
PositionsIn(S) == {k \in S : IsPositionLine(variant, consumed[k])}

C4_FirstPositionWins ==
    \A i \in DOMAIN benchmarks :
        PositionsIn(BlockOf(i)) # {} =>
            /\ benchmarks[i].latitude = ExpectedLatitude(consumed[MinOf(PositionsIn(BlockOf(i)))])
            /\ benchmarks[i].longitude = ExpectedLongitude(consumed[MinOf(PositionsIn(BlockOf(i)))])

(***************************************************************************)
(* C4 as amended: every matching POSITION- line overwrites the             *)
(* coordinates, so the record in progress and every emitted record carry   *)
(* the coordinates of the last POSITION- line of the block that matched.   *)
(***************************************************************************)
CoordinatesFrom(r, S) ==
    IF PositionsIn(S) = {} THEN r.latitude = Null /\ r.longitude = Null
    ELSE /\ r.latitude = ExpectedLatitude(consumed[MaxOf(PositionsIn(S))])
         /\ r.longitude = ExpectedLongitude(consumed[MaxOf(PositionsIn(S))])

C4_LastPositionWins ==
    /\ \A i \in DOMAIN benchmarks : CoordinatesFrom(benchmarks[i], BlockOf(i))
    /\ Building => CoordinatesFrom(currentBenchmark, CurrentBlock)

C4_Witness ==
    \E i \in DOMAIN benchmarks :
        /\ Cardinality(PositionsIn(BlockOf(i))) >= 2
        /\ consumed[MinOf(PositionsIn(BlockOf(i)))] = L_POS
        /\ consumed[MaxOf(PositionsIn(BlockOf(i)))] = L_POSSE

(***************************************************************************)
(* C5: the elevation of the record in progress and of every emitted record *)
(* is that of the last line of the block matching the elevation rule,      *)
(* ellipsoidal or orthometric alike, and null when no line matches.        *)
(***************************************************************************)
ElevationsIn(S) == {k \in S : consumed[k] \in ElevationLines}

ElevationFrom(r, S) ==
    r.elevation = IF ElevationsIn(S) = {} THEN Null
                  ELSE ExpectedElevation(consumed[MaxOf(ElevationsIn(S))])

C5_ElevationLastWriteWins ==
    /\ \A i \in DOMAIN benchmarks : ElevationFrom(benchmarks[i], BlockOf(i))
    /\ Building => ElevationFrom(currentBenchmark, CurrentBlock)

\* an emitted record whose block has the orthometric height first and the
\* ellipsoidal height after it
C5_Witness ==
    \E i \in DOMAIN benchmarks :
        /\ \E j, k \in BlockOf(i) : j < k /\ consumed[j] = L_ORTHO /\ consumed[k] = L_ELLIP
        /\ consumed[MaxOf(ElevationsIn(BlockOf(i)))] = L_ELLIP
        /\ benchmarks[i].elevation = Num(15291)

(***************************************************************************)
(* C6: in the limited and full variants the type of the record in progress *)
(* and of every emitted record is set by the last line of the block that   *)
(* holds a type keyword, whatever the keywords of earlier lines, and is    *)
(* Control Point when no line holds one.                                   *)
(***************************************************************************)
KeywordsIn(S) == {k \in S : consumed[k] \in KeywordLines}

TypeFrom(r, S) ==
    r.type = IF KeywordsIn(S) = {} THEN Str("Control Point")
             ELSE ExpectedType(consumed[MaxOf(KeywordsIn(S))])

C6_LastKeywordLineDecidesType ==
    variant # "test" =>
        /\ \A i \in DOMAIN benchmarks : TypeFrom(benchmarks[i], BlockOf(i))
        /\ Building => TypeFrom(currentBenchmark, CurrentBlock)

\* an emitted record that was a CORS Station and flipped to Vertical Control
C6_Witness ==
    \E i \in DOMAIN benchmarks :
        /\ \E j, k \in BlockOf(i) : j < k /\ consumed[j] = L_CORS /\ consumed[k] = L_VERT
        /\ consumed[MaxOf(KeywordsIn(BlockOf(i)))] = L_VERT
        /\ benchmarks[i].type = Str("Vertical Control")

(***************************************************************************)
(* C7: right after a POSITION- line has matched, the stored latitude is    *)
(* deg + min/60 + sec/3600 of its first triple, negated exactly for S, and *)
(* the stored longitude that of its second triple, negated exactly for W,  *)
(* with no range check; 45 30 0.00 N, 122 30 0.00 W gives 45.5, -122.5.    *)
(***************************************************************************)
C7_SignedDecimalDegrees ==
    (Building /\ consumed # << >> /\ IsPositionLine(variant, Last(consumed))) =>
        /\ currentBenchmark.latitude = ExpectedLatitude(Last(consumed))
        /\ currentBenchmark.longitude = ExpectedLongitude(Last(consumed))
        /\ Last(consumed) = L_POS =>
              /\ currentBenchmark.latitude = Num(16380000)
              /\ currentBenchmark.longitude = Num(0 - 44100000)

\* a southern, eastern position outside the legal ranges has been stored
C7_Witness ==
    /\ Building
    /\ consumed # << >>
    /\ Last(consumed) = L_POSSE
    /\ currentBenchmark.latitude = Num(0 - 34293050)
    /\ currentBenchmark.longitude = Num(72271025)

(***************************************************************************)
(* C9: in every variant, every record of this.benchmarks has an id that is *)
(* not null and a latitude and a longitude that are numbers.  The test     *)
(* variant does not look at the id before it pushes.                       *)
(***************************************************************************)
C9_EmittedRecordsComplete ==
    \A i \in DOMAIN benchmarks :
        /\ benchmarks[i].id # Null
        /\ benchmarks[i].latitude.kind = "num"
        /\ benchmarks[i].longitude.kind = "num"

\* C8: every record of the collection, and the record being built, has as its
\* state the name of the folder whose file it was parsed from, whatever the
\* lines of that file say (a STATE/COUNTY line included).
C8_StateIsRegionCode ==
    /\ \A i \in DOMAIN benchmarks :
          benchmarks[i].state = Str(root.entries[spans[i].folder].name)
    /\ (pc = "loop" /\ currentBenchmark # Null)
          => currentBenchmark.state = Str(root.entries[folderIdx].name)

\* C8 witness: records of two folders are in the collection, and the block of
\* one from folder AK held a STATE/COUNTY line naming CA.
C8_Witness ==
    \E i, j \in DOMAIN benchmarks :
        /\ benchmarks[i].state = Str("AK")
        /\ benchmarks[j].state = Str("CA")
        /\ \E k \in DOMAIN spans[i].lines : spans[i].lines[k] = L_STATE

NoTextFile(e) ==
    /\ e.stat = "dir"
    /\ e.readdir = "ok"
    /\ \A i \in DOMAIN e.files : ~endsWith(e.files[i], ".txt") /\ ~endsWith(e.files[i], ".dat")

AtFolder == bpc = "loop" /\ ~foldersDone

C11_EmptyRegionSkipped ==
    /\ [](\A i \in DOMAIN spans : ~NoTextFile(root.entries[spans[i].folder]))
    /\ [][(AtFolder /\ NoTextFile(root.entries[folderIdx]))
            => /\ bpc' = "loop"
               /\ folderIdx' = folderIdx + 1
               /\ benchmarks' = benchmarks
               /\ totalBenchmarks' = totalBenchmarks]_vars

\* C11 witness: the run is over and saved, the first folder had no text file,
\* and the collection holds a record of a folder after it.
C11_Witness ==
    /\ bpc = "done"
    /\ written # Undefined
    /\ NoTextFile(root.entries[1])
    /\ \E i \in DOMAIN spans : spans[i].folder = 2

(***************************************************************************)
(* C12: a region whose file fails while it is read has no record in the    *)
(* collection when its call returns, and a failure confined to one region  *)
(* (its file, its stat, its listing) never aborts the batch: only an       *)
(* unreadable root does.  In the code the records pushed before the        *)
(* failure stay, and a failed stat or listing of a region leaves the loop  *)
(* through the catch of processAllDatasheets without saving.               *)
(***************************************************************************)
C12_RegionFailureIsolated ==
    /\ (bpc = "parsing" /\ pc = "caught")
          => \A i \in DOMAIN spans : spans[i].folder # folderIdx
    /\ bpc = "failed" => root.readdir = "error"

(***************************************************************************)
(* C13: when the root directory cannot be listed, the caller of            *)
(* processAllDatasheets sees an outcome that no successful run gives, and  *)
(* nothing else ends the run through the catch.  In the code the catch     *)
(* returns what a successful run with no record returns ([] in the limited *)
(* variant, nothing in the full one), and a failed stat or listing of one  *)
(* folder ends the run the same way.                                       *)
(***************************************************************************)
\* what a run that reached its last statement hands to the caller
NormalResult(v, r) == IF v = "limited" THEN r.kind = "array" ELSE r = Undefined

C13_RootFailureReported ==
    /\ (bpc = "failed" /\ root.readdir = "error") => ~NormalResult(variant, batchRet)
    /\ bpc = "failed" => root.readdir = "error"

(***************************************************************************)
(* C14: no ceiling on the number of records ends the reading of a file:    *)
(* in the limited and full variants the call returns only when the input   *)
(* is exhausted, never on a step that has just read a line.  In the code   *)
(* the boundary line that brings benchmarkCount to maxBenchmarks breaks    *)
(* out of the loop and the rest of the file is not read.                   *)
(***************************************************************************)
C14_NoRecordCeiling ==
    [][(variant # "test" /\ pc = "loop" /\ pc' = "returned") => consumed' = consumed]_vars

SaveStep == variant = "full" /\ bpc = "loop" /\ bpc' = "done"

Described(old, new) ==
    /\ new.description # Null
    /\ new = [old EXCEPT !.description =
                 IF old.description # Null THEN old.description
                 ELSE Str("NGS " \o old.type.s \o " control point in " \o old.state.s)]

RECURSIVE SumOf(_, _)
SumOf(f, K) ==
    IF K = {} THEN 0
    ELSE LET k == CHOOSE x \in K : TRUE IN f[k] + SumOf(f, K \ {k})

Tally(counts, field) ==
    /\ DOMAIN counts = {benchmarks[i][field].s : i \in DOMAIN benchmarks}
    /\ \A k \in DOMAIN counts :
          counts[k] = Cardinality({i \in DOMAIN benchmarks : benchmarks[i][field].s = k})
    /\ SumOf(counts, DOMAIN counts) = Len(benchmarks)

C16_SummaryCountsEachRecordOnce ==
    /\ [](stats # Undefined =>
            /\ stats.total = Len(benchmarks)
            /\ Tally(stats.byType, "type")
            /\ Tally(stats.byState, "state"))
    /\ [][(variant = "limited" /\ stats = Undefined /\ stats' # Undefined)
             => benchmarks' = benchmarks]_vars

\* C16 witness: a summary over two records of one type and of two states
C16_Witness ==
    /\ stats # Undefined
    /\ stats.total = 2
    /\ stats.byType = [k \in {"Control Point"} |-> 2]
    /\ stats.byState = [k \in {"AK", "CA"} |-> 1]

(***************************************************************************)
(* C17: the batch parses one file per region, the first datasheet file of  *)
(* the region's listing, one region at a time in listing order: a call of  *)
(* parseDatasheetFile starts only when none is running, the folder index   *)
(* never goes back and moves on when a call is over.  Hence the records of *)
(* the collection are grouped by region in listing order and, within a     *)
(* region, are in the order of their blocks in the file.                   *)
(***************************************************************************)
IsDatasheetName(v, name) ==
    endsWith(name, ".txt") \/ (v = "limited" /\ endsWith(name, ".dat"))

FirstDatasheet(v, files) ==
    files[MinOf({i \in DOMAIN files : IsDatasheetName(v, files[i])})]

C17_OneFilePerRegionInOrder ==
    /\ [](/\ Len(spans) = Len(benchmarks)
          /\ \A i, j \in DOMAIN spans :
                i < j => \/ spans[i].folder < spans[j].folder
                         \/ /\ spans[i].folder = spans[j].folder
                            /\ spans[i].first <= spans[j].first)
    /\ [](bpc = "parsing" =>
             /\ stateCode = root.entries[folderIdx].name
             /\ fileName = FirstDatasheet(variant, root.entries[folderIdx].files))
    /\ [][folderIdx' >= folderIdx]_vars
    /\ [][(bpc = "parsing" /\ bpc' # "parsing") => folderIdx' = folderIdx + 1]_vars
    /\ [][(pc # "loop" /\ pc' = "loop") => (pc = "idle" /\ bpc = "loop")]_vars

\* C17 witness: the run is over and the collection holds a record of the
\* first folder followed by a record of the second.
C17_Witness ==
    /\ bpc = "done"
    /\ Len(spans) = 2
    /\ spans[1].folder = 1
    /\ spans[2].folder = 2
    /\ benchmarks[1].state = Str("AK")
    /\ benchmarks[2].state = Str("CA")

(***************************************************************************)
(* C18: a line of an open record whose numeric capture is no number leaves *)
(* the field as it was, and no field of a record is ever NaN; a line that  *)
(* matches no rule leaves the whole record as it was.  In the code the     *)
(* patterns [\d.]+ and [\d.-]+ accept '.' and '-', parseFloat gives NaN,   *)
(* and the NaN is assigned over whatever the field held.                   *)
(***************************************************************************)
Reads(l) == pc = "loop" /\ consumed' = Append(consumed, l)

C18_UnparsedCaptureIsNoOp ==
    /\ [](Truthy(currentBenchmark) =>
             /\ currentBenchmark.latitude # NaN
             /\ currentBenchmark.longitude # NaN
             /\ currentBenchmark.elevation # NaN)
    /\ [][(Building /\ Reads(L_POSBAD)) =>
             /\ currentBenchmark'.latitude = currentBenchmark.latitude
             /\ currentBenchmark'.longitude = currentBenchmark.longitude]_vars
    /\ [][(Building /\ Reads(L_ELLIPBAD)) =>
             currentBenchmark'.elevation = currentBenchmark.elevation]_vars
    /\ [][(Building /\ Reads(L_STATE)) => currentBenchmark' = currentBenchmark]_vars

(***************************************************************************)
(* C19: when a call of the limited or full variant has returned, the       *)
(* collection holds, in file order and once each, exactly the blocks read  *)
(* that pass the Validator (an id and a position were parsed in the        *)
(* block), as if the other blocks were absent.  In the code a valid block  *)
(* on the equator is dropped, a block whose last position line has         *)
(* seconds that are no number is dropped, and the block that reaches       *)
(* maxBenchmarks is there twice.                                           *)
(***************************************************************************)
Starts == {k \in DOMAIN consumed : consumed[k] \in BoundaryLines}

BlockFrom(k) == k .. (MinOf({j \in Starts \cup {Len(consumed) + 1} : j > k}) - 1)

ValidBlock(S) ==
    /\ \E k \in S : consumed[k] \in {L_PID, L_HDRPID}
    /\ \E k \in PositionsIn(S) : consumed[k] # L_POSBAD

C19_OutputIsTheValidBlocks ==
    (variant # "test" /\ pc = "returned") =>
        LET V == {k \in Starts : ValidBlock(BlockFrom(k))}
        IN  /\ Len(benchmarks) = Cardinality(V)
            /\ {spans[i].first : i \in DOMAIN spans} = V
            /\ \A i, j \in DOMAIN spans : i < j => spans[i].first < spans[j].first

(***************************************************************************)
(* C20: the step that reads a boundary line and goes on leaves a record    *)
(* that holds nothing of the block before it: name, latitude, longitude,   *)
(* elevation and description are null, the type is Control Point, the      *)
(* state is the region code, and the id is null unless the boundary line   *)
(* itself carries a PID tag.  Two records emitted from blocks of the same  *)
(* lines are equal, whatever the blocks before them held.                  *)
(***************************************************************************)
FreshFor(l) ==
    [kind |-> "obj", id |-> IF l = L_HDRPID THEN Str("CD5678") ELSE Null, name |-> Null,
     type |-> Str("Control Point"), latitude |-> Null, longitude |-> Null,
     elevation |-> Null, state |-> Str(stateCode), description |-> Null,
     datasheet_url |-> IF variant = "full"
                       THEN Str("/data/datasheets/" \o stateCode \o "/" \o fileName)
                       ELSE Undefined]

JustOpened == Building /\ consumed # << >> /\ Last(consumed) \in BoundaryLines

InitialFields(r) ==
    /\ r.name = Null
    /\ r.type = Str("Control Point")
    /\ r.latitude = Null
    /\ r.longitude = Null
    /\ r.elevation = Null
    /\ r.description = Null

C21_BoundaryLineNotExtracted ==
    JustOpened => (currentBenchmark.id = Null /\ InitialFields(currentBenchmark))

(***************************************************************************)
(* C21 as amended: right after a boundary line the record in progress has  *)
(* the initial values overlaid with what the field rules find in that      *)
(* line: the id is the capture of the line's PID tag when it has one, null *)
(* otherwise, and the other fields, which these boundary lines do not      *)
(* carry, are initial.                                                     *)
(***************************************************************************)
C21_BoundaryLineExtracted ==
    JustOpened =>
        /\ currentBenchmark.id = IF Last(consumed) = L_HDRPID THEN Str("CD5678") ELSE Null
        /\ InitialFields(currentBenchmark)

\* C21 witness: a boundary line with a PID tag was read last and the record
\* it opened has that id
C21_Witness ==
    /\ JustOpened
    /\ Last(consumed) = L_HDRPID
    /\ currentBenchmark.id = Str("CD5678")
    /\ Len(benchmarks) >= 1

(***************************************************************************)
(* C22: within a block the id and the name are those of the last line in   *)
(* file order that the PID rule, respectively the DESIGNATION rule,        *)
(* matched, the name trimmed; a PID or DESIGNATION line the pattern does   *)
(* not match leaves the value as it was (null when no line matched).  The  *)
(* block includes its boundary line (C21).                                 *)
(***************************************************************************)
IdLines == {L_PID, L_HDRPID}
ExpectedId(l) == CASE l = L_PID -> Str("AB1234") [] l = L_HDRPID -> Str("CD5678")
NameLines == {L_NAME, L_NAME2}
ExpectedName(l) == CASE l = L_NAME -> Str("TEST POINT") [] l = L_NAME2 -> Str("SECOND MARK")

IdsIn(S) == {k \in S : consumed[k] \in IdLines}
NamesIn(S) == {k \in S : consumed[k] \in NameLines}

IdentityFrom(r, S) ==
    /\ r.id = IF IdsIn(S) = {} THEN Null ELSE ExpectedId(consumed[MaxOf(IdsIn(S))])
    /\ r.name = IF NamesIn(S) = {} THEN Null ELSE ExpectedName(consumed[MaxOf(NamesIn(S))])

C22_LastIdAndNameWin ==
    /\ \A i \in DOMAIN benchmarks : IdentityFrom(benchmarks[i], BlockOf(i))
    /\ Building => IdentityFrom(currentBenchmark, CurrentBlock)

\* C22 witness: a collected record whose block has two different names, then
\* a DESIGNATION line the pattern does not match, and which carries the second
C22_Witness ==
    \E i \in DOMAIN benchmarks :
        /\ Cardinality(NamesIn(BlockOf(i))) >= 2
        /\ consumed[MinOf(NamesIn(BlockOf(i)))] = L_NAME
        /\ consumed[MaxOf(NamesIn(BlockOf(i)))] = L_NAME2
        /\ \E k \in BlockOf(i) : k > MaxOf(NamesIn(BlockOf(i))) /\ consumed[k] = L_NAMEBAD
        /\ benchmarks[i].name = Str("SECOND MARK")

(***************************************************************************)
(* C23 as claimed: the collection and the count of the call change only on *)
(* a step that reads a boundary line or that finds the input exhausted;    *)
(* a step that reads any other line leaves both as they were; the          *)
(* collection before a step is a prefix of the collection after it.  The   *)
(* test variant also leaves the loop after testLineLimit lines and runs    *)
(* the check after the loop there, whatever the line was.                  *)
(***************************************************************************)
IsPrefix(a, b) == Len(a) <= Len(b) /\ SubSeq(b, 1, Len(a)) = a

ReadsBoundary == \E l \in BoundaryLines : Reads(l)
ReadsOther == \E l \in AllLines \ BoundaryLines : Reads(l)
InputExhausted == pc = "loop" /\ pc' = "returned" /\ consumed' = consumed
Emits == benchmarks' # benchmarks \/ benchmarkCount' # benchmarkCount

StopsAtLineLimit ==
    /\ variant = "test"
    /\ pc = "loop" /\ pc' = "returned"
    /\ Len(consumed') = testLineLimit + 1
    /\ Len(consumed) = testLineLimit

C24_CeilingHolds ==
    variant # "test" =>
        /\ Len(benchmarks) <= maxBenchmarks
        /\ benchmarkCount <= maxBenchmarks
        /\ pc = "returned" => ret.n <= maxBenchmarks

(***************************************************************************)
(* C25: no record is appended more than once: each block gives at most one *)
(* entry of the collection, also in a run that stops at maxBenchmarks.     *)
(* Entries are told apart by the block they were built from.               *)
(***************************************************************************)
C25_NoRecordTwice ==
    \A i, j \in DOMAIN spans : i # j => spans[i].first # spans[j].first

(***************************************************************************)
(* C26: when a call of the limited or full variant is over, on the normal  *)
(* path or on the error path, the count it returns is the number of        *)
(* records it appended to the collection (empty when the call began).  In  *)
(* the code the catch returns 0 and leaves in the collection the records   *)
(* pushed before the stream failed.                                        *)
(***************************************************************************)
C26_CountIsNumberAppended ==
    (variant # "test" /\ pc \in {"returned", "caught"}) => ret = Num(Len(benchmarks))

(***************************************************************************)
(* C27: the type of the record in progress and of every collected record   *)
(* is one of the five categories; it is never null and never another       *)
(* string.                                                                 *)
(***************************************************************************)
Categories ==
    {Str("Control Point"), Str("Vertical Control"), Str("CORS Station"),
     Str("Triangulation Station"), Str("Primary Airport Control")}

C27_TypeIsACategory ==
    /\ \A i \in DOMAIN benchmarks : benchmarks[i].type \in Categories
    /\ Truthy(currentBenchmark) => currentBenchmark.type \in Categories

\* C27 witness: the collection holds a record of a category set by a keyword
\* and the record in progress is of another such category
C27_Witness ==
    /\ Building
    /\ \E i \in DOMAIN benchmarks : benchmarks[i].type = Str("Primary Airport Control")
    /\ currentBenchmark.type = Str("Triangulation Station")

(***************************************************************************)
(* C28: once a record is in the collection, no step (a later line of the   *)
(* same file, a later file, the save) changes its id, name, type,          *)
(* latitude, longitude, elevation or state, and it stays at its place;     *)
(* its description changes only in the save step of the full variant.      *)
(***************************************************************************)
Core(r) ==
    << r.id, r.name, r.type, r.latitude, r.longitude, r.elevation, r.state >>

C28_CollectedRecordsAreFrozen ==
    [][\A i \in DOMAIN benchmarks :
          /\ i \in DOMAIN benchmarks'
          /\ Core(benchmarks'[i]) = Core(benchmarks[i])
          /\ benchmarks'[i].description # benchmarks[i].description => SaveStep]_vars

\* C28 witness: a record collected from the first region has gone through
\* the lines of a second region's file and through the backfill of the save
C28_Witness ==
    /\ variant = "full"
    /\ bpc = "done"
    /\ written = Arr(benchmarks)
    /\ \E i, j \in DOMAIN benchmarks :
          /\ spans[i].folder < spans[j].folder
          /\ benchmarks[i].state # benchmarks[j].state
          /\ benchmarks[i].name = Null
          /\ benchmarks[i].description # Null

(***************************************************************************)
(* C29: in the limited and full variants a line with more than one type    *)
(* keyword sets the type of the record in progress by the priority PACS,   *)
(* CORS, TRIANGULATION, VERTICAL, wherever the keywords stand in the line; *)
(* a line without the marker and without a keyword leaves the type as it   *)
(* was.                                                                    *)
(***************************************************************************)
KeywordsOf(l) ==
    CASE l = L_VERTTRI -> << "VERTICAL", "TRIANGULATION" >>
      [] l = L_TRICORS -> << "TRIANGULATION", "CORS" >>
      [] l = L_CORSPACS -> << "CORS", "PACS", "VERTICAL" >>
      [] l = L_CORS -> << "CORS" >>
      [] l = L_VERT -> << "VERTICAL" >>
      [] OTHER -> << >>

Has(l, kw) == \E k \in DOMAIN KeywordsOf(l) : KeywordsOf(l)[k] = kw

TypeByPriority(l) ==
    IF Has(l, "PACS") THEN Str("Primary Airport Control")
    ELSE IF Has(l, "CORS") THEN Str("CORS Station")
    ELSE IF Has(l, "TRIANGULATION") THEN Str("Triangulation Station")
    ELSE Str("Vertical Control")

C29_KeywordPriorityInLine ==
    [][\A l \in AllLines \ BoundaryLines :
          (variant # "test" /\ Building /\ Reads(l)) =>
              currentBenchmark'.type = IF KeywordsOf(l) = << >> THEN currentBenchmark.type
                                       ELSE TypeByPriority(l)]_vars

\* C29 witness: a record whose type was set by a line with TRIANGULATION
\* before CORS is collected as a CORS Station, and the line with CORS before
\* PACS has just made the record in progress a Primary Airport Control
C29_Witness ==
    /\ Building
    /\ variant # "test"
    /\ Last(consumed) = L_CORSPACS
    /\ currentBenchmark.type = Str("Primary Airport Control")
    /\ \E i \in DOMAIN benchmarks :
          /\ KeywordsIn(BlockOf(i)) # {}
          /\ consumed[MaxOf(KeywordsIn(BlockOf(i)))] = L_TRICORS
          /\ benchmarks[i].type = Str("CORS Station")

====
